---------------------------- MODULE Spec2Model ----------------------------
(***************************************************************************)
(* Cortex-M fault handler (src/src/fault_handler.c) and the ITM byte sink  *)
(* (src/src/communication.c).                                              *)
(*                                                                         *)
(* A 32-bit word is the set of its set bit positions (a subset of 0..31):  *)
(* `&` is \cap, `1u << POS` is {POS}, zero is {}.  Words are printed as    *)
(* eight hexadecimal digits, most significant first.                       *)
(***************************************************************************)
EXTENDS Integers, Sequences, FiniteSets, TLC

VARIABLES
    cfg,        \* compile-time configuration (fault_config.h switches)
    reg,        \* memory-mapped registers HFSR CFSR MMFAR BFAR AFSR DHCSR AIRCR
    cpu,        \* core registers at exception entry: LR, MSP, PSP
    mem,        \* stack memory, word addressed
    ip,         \* index of the next statement of the handler body
    mode,       \* what the core is doing
    args,       \* R0, R1 as passed to ReportStackUsage
    snap,       \* locals of ReportStackUsage (the 13 captured words)
    dec,        \* the local cfsr / hfsr of each decoder that has run
    out,        \* items handed to the FAULT_PRINT* macros, in order
    events,     \* statements executed so far, each with Len(out) after it
    reads,      \* number of loads of each status register
    hwChanges,  \* number of status bits the hardware has set meanwhile
    queue,      \* lengths of the _write calls still to be made
    wpc,        \* position inside _write
    wi,         \* _write: uint16_t i
    wlen        \* _write: int len

vars == <<cfg, reg, cpu, mem, ip, mode, args, snap, dec, out, events, reads,
          hwChanges, queue, wpc, wi, wlen>>

handlerVars == <<cfg, reg, cpu, mem, ip, mode, args, snap, dec, out, events,
                 reads, hwChanges>>

writeVars == <<queue, wpc, wi, wlen>>

-----------------------------------------------------------------------------
(* Bounds of the model *)

\* status bits the hardware may set while the handler runs
MaxHwChanges == 1

\* longest ordinary report item handed to _write
MaxLen == 3

-----------------------------------------------------------------------------
(* Words *)

AllBits == 0..31

Zero == {}

Ones == AllBits

\* the word written as eight hexadecimal digits, most significant first
FromHex(d) == { b \in AllBits : (d[8 - (b \div 4)] \div (2 ^ (b % 4))) % 2 = 1 }

Nibble(w, k) ==
    (IF 4 * k \in w THEN 1 ELSE 0) + (IF 4 * k + 1 \in w THEN 2 ELSE 0) +
    (IF 4 * k + 2 \in w THEN 4 ELSE 0) + (IF 4 * k + 3 \in w THEN 8 ELSE 0)

\* fixed-width hexadecimal: eight digits, most significant first
Hex8(w) == [i \in 1..8 |-> Nibble(w, 8 - i)]

-----------------------------------------------------------------------------
(* Register bits, fault_handler.c lines 37-81 *)

\* faulty variant: the mask is shifted one place too far
CHECK_BIT_ShiftedMask(REG, POS) == REG \cap {POS + 1}

CHECK_BIT(REG, POS) == REG \cap {POS}

DEBUGEN == 1

FORCED == 30
VECTTBL == 1

MMARVALID == 7
MLSPERR == 5
MSTKERR == 4
MUNSTKERR == 3
DACCVIOL == 1
IACCVIOL == 0

BFARVALID == 15
LSPERR == 13
STKERR == 12
UNSTKERR == 11
IMPRECISERR == 10
PRECISERR == 9
IBUSERR == 8

DIVBYZERO == 25
UNALIGNED == 24
NOCP == 19
INVPC == 18
INVSTATE == 17
UNDEFINSTR == 16

AIRCR_RESETREQ == FromHex(<<0, 5, 15, 10, 0, 0, 4, 0>>)

\* DHCSR & DEBUGEN: the mask 1u is bit 0, C_DEBUGEN
DebuggerAttached(r) == (r.DHCSR \cap FromHex(<<0, 0, 0, 0, 0, 0, 0, DEBUGEN>>)) # {}

-----------------------------------------------------------------------------
(* Print macros (fault_config.h) *)

FAULT_PRINTLN(s) == << [op |-> "println", s |-> s, hex |-> << >>] >>

FAULT_PRINT(s) == << [op |-> "print", s |-> s, hex |-> << >>] >>

FAULT_PRINT_HEX(v) == << [op |-> "hex", s |-> "", hex |-> Hex8(v)] >>

FAULT_NEWLINE == << [op |-> "newline", s |-> "", hex |-> << >>] >>

-----------------------------------------------------------------------------
(* ReportStackUsage, fault_handler.c lines 196-233 *)

\* faulty variant: the LR and PC slots of the frame are read the wrong way round
ReportStackUsage_LrPcSwapped(stack_frame, exc, m, r) ==
    LET r0   == m[stack_frame + 0]
        r1   == m[stack_frame + 1]
        r2   == m[stack_frame + 2]
        r3   == m[stack_frame + 3]
        r12  == m[stack_frame + 4]
        lr   == m[stack_frame + 6]
        pc   == m[stack_frame + 5]
        psr  == m[stack_frame + 7]
        hfsr == r.HFSR
        cfsr == r.CFSR
        mmar == r.MMFAR
        bfar == r.BFAR
        afsr == r.AFSR
    IN  [ locals |-> [r0 |-> r0, r1 |-> r1, r2 |-> r2, r3 |-> r3, r12 |-> r12,
                      lr |-> lr, pc |-> pc, psr |-> psr, hfsr |-> hfsr,
                      cfsr |-> cfsr, mmar |-> mmar, bfar |-> bfar, afsr |-> afsr],
          text |->
            FAULT_PRINTLN("!!!Fault detected!!!") \o
            FAULT_PRINTLN("Stack frame:") \o
            FAULT_PRINT("R0 :    ") \o FAULT_PRINT_HEX(r0) \o FAULT_NEWLINE \o
            FAULT_PRINT("R1 :    ") \o FAULT_PRINT_HEX(r1) \o FAULT_NEWLINE \o
            FAULT_PRINT("R2 :    ") \o FAULT_PRINT_HEX(r2) \o FAULT_NEWLINE \o
            FAULT_PRINT("R3 :    ") \o FAULT_PRINT_HEX(r3) \o FAULT_NEWLINE \o
            FAULT_PRINT("R12:    ") \o FAULT_PRINT_HEX(r12) \o FAULT_NEWLINE \o
            FAULT_PRINT("LR :    ") \o FAULT_PRINT_HEX(lr) \o FAULT_NEWLINE \o
            FAULT_PRINT("PC :    ") \o FAULT_PRINT_HEX(pc) \o FAULT_NEWLINE \o
            FAULT_PRINT("PSR:    ") \o FAULT_PRINT_HEX(psr) \o FAULT_NEWLINE \o
            FAULT_PRINTLN("Fault status:") \o
            FAULT_PRINT("HFSR:    ") \o FAULT_PRINT_HEX(hfsr) \o FAULT_NEWLINE \o
            FAULT_PRINT("CFSR:    ") \o FAULT_PRINT_HEX(cfsr) \o FAULT_NEWLINE \o
            FAULT_PRINT("MMAR:    ") \o FAULT_PRINT_HEX(mmar) \o FAULT_NEWLINE \o
            FAULT_PRINT("BFAR:    ") \o FAULT_PRINT_HEX(bfar) \o FAULT_NEWLINE \o
            FAULT_PRINT("AFSR:    ") \o FAULT_PRINT_HEX(afsr) \o FAULT_NEWLINE \o
            FAULT_PRINTLN("Other:") \o
            FAULT_PRINT("EXC_RETURN: ") \o FAULT_PRINT_HEX(exc) \o FAULT_NEWLINE ]

ReportStackUsage(stack_frame, exc, m, r) ==
    LET r0   == m[stack_frame + 0]
        r1   == m[stack_frame + 1]
        r2   == m[stack_frame + 2]
        r3   == m[stack_frame + 3]
        r12  == m[stack_frame + 4]
        lr   == m[stack_frame + 5]
        pc   == m[stack_frame + 6]
        psr  == m[stack_frame + 7]
        hfsr == r.HFSR
        cfsr == r.CFSR
        mmar == r.MMFAR
        bfar == r.BFAR
        afsr == r.AFSR
    IN  [ locals |-> [r0 |-> r0, r1 |-> r1, r2 |-> r2, r3 |-> r3, r12 |-> r12,
                      lr |-> lr, pc |-> pc, psr |-> psr, hfsr |-> hfsr,
                      cfsr |-> cfsr, mmar |-> mmar, bfar |-> bfar, afsr |-> afsr],
          text |->
            FAULT_PRINTLN("!!!Fault detected!!!") \o
            FAULT_PRINTLN("Stack frame:") \o
            FAULT_PRINT("R0 :    ") \o FAULT_PRINT_HEX(r0) \o FAULT_NEWLINE \o
            FAULT_PRINT("R1 :    ") \o FAULT_PRINT_HEX(r1) \o FAULT_NEWLINE \o
            FAULT_PRINT("R2 :    ") \o FAULT_PRINT_HEX(r2) \o FAULT_NEWLINE \o
            FAULT_PRINT("R3 :    ") \o FAULT_PRINT_HEX(r3) \o FAULT_NEWLINE \o
            FAULT_PRINT("R12:    ") \o FAULT_PRINT_HEX(r12) \o FAULT_NEWLINE \o
            FAULT_PRINT("LR :    ") \o FAULT_PRINT_HEX(lr) \o FAULT_NEWLINE \o
            FAULT_PRINT("PC :    ") \o FAULT_PRINT_HEX(pc) \o FAULT_NEWLINE \o
            FAULT_PRINT("PSR:    ") \o FAULT_PRINT_HEX(psr) \o FAULT_NEWLINE \o
            FAULT_PRINTLN("Fault status:") \o
            FAULT_PRINT("HFSR:    ") \o FAULT_PRINT_HEX(hfsr) \o FAULT_NEWLINE \o
            FAULT_PRINT("CFSR:    ") \o FAULT_PRINT_HEX(cfsr) \o FAULT_NEWLINE \o
            FAULT_PRINT("MMAR:    ") \o FAULT_PRINT_HEX(mmar) \o FAULT_NEWLINE \o
            FAULT_PRINT("BFAR:    ") \o FAULT_PRINT_HEX(bfar) \o FAULT_NEWLINE \o
            FAULT_PRINT("AFSR:    ") \o FAULT_PRINT_HEX(afsr) \o FAULT_NEWLINE \o
            FAULT_PRINTLN("Other:") \o
            FAULT_PRINT("EXC_RETURN: ") \o FAULT_PRINT_HEX(exc) \o FAULT_NEWLINE ]

-----------------------------------------------------------------------------
(* The decoders, fault_handler.c lines 235-353.  Each loads its register   *)
(* once into a local and tests the local.                                  *)

ReportMemanageFault(r) ==
    LET cfsr == r.CFSR
    IN  [ local |-> cfsr,
          text |->
            FAULT_PRINTLN("MemManage fault status:") \o
            (IF CHECK_BIT(cfsr, MMARVALID) # {}
                THEN FAULT_PRINTLN(" - MMAR holds a valid address.")
                ELSE FAULT_PRINTLN(" - MMAR holds an invalid address.")) \o
            (IF CHECK_BIT(cfsr, MLSPERR) # {}
                THEN FAULT_PRINTLN(" - Fault occurred during floating-point lazy state preservation.")
                ELSE << >>) \o
            (IF CHECK_BIT(cfsr, MSTKERR) # {}
                THEN FAULT_PRINTLN(" - Stacking has caused an access violation.")
                ELSE << >>) \o
            (IF CHECK_BIT(cfsr, MUNSTKERR) # {}
                THEN FAULT_PRINTLN(" - Unstacking has caused an access violation.")
                ELSE << >>) \o
            (IF CHECK_BIT(cfsr, DACCVIOL) # {}
                THEN FAULT_PRINTLN(" - Load or store at a location that does not permit the operation.")
                ELSE << >>) \o
            (IF CHECK_BIT(cfsr, IACCVIOL) # {}
                THEN FAULT_PRINTLN(" - Instruction fetch from a location that does not permit execution.")
                ELSE << >>) ]

ReportBusFault(r) ==
    LET cfsr == r.CFSR
    IN  [ local |-> cfsr,
          text |->
            FAULT_PRINTLN("Bus fault status:\n") \o
            (IF CHECK_BIT(cfsr, BFARVALID) # {}
                THEN FAULT_PRINTLN(" - BFAR holds a valid address.")
                ELSE FAULT_PRINTLN(" - BFAR holds an invalid address.")) \o
            (IF CHECK_BIT(cfsr, LSPERR) # {}
                THEN FAULT_PRINTLN(" - Fault occurred during floating-point lazy state preservation.")
                ELSE << >>) \o
            (IF CHECK_BIT(cfsr, STKERR) # {}
                THEN FAULT_PRINTLN(" - Stacking has caused a Bus fault.")
                ELSE << >>) \o
            (IF CHECK_BIT(cfsr, UNSTKERR) # {}
                THEN FAULT_PRINTLN(" - Unstacking has caused a Bus fault.")
                ELSE << >>) \o
            (IF CHECK_BIT(cfsr, IMPRECISERR) # {}
                THEN FAULT_PRINTLN(" - Data bus error has occurred, but the return address in the stack is not related to the fault.")
                ELSE << >>) \o
            (IF CHECK_BIT(cfsr, PRECISERR) # {}
                THEN FAULT_PRINTLN(" - Data bus error has occurred, and the return address points to the instruction that caused the fault.")
                ELSE << >>) \o
            (IF CHECK_BIT(cfsr, IBUSERR) # {}
                THEN FAULT_PRINTLN(" - Instruction bus error.")
                ELSE << >>) ]

ReportUsageFault(r) ==
    LET cfsr == r.CFSR
    IN  [ local |-> cfsr,
          text |->
            FAULT_PRINTLN("Usage fault status:") \o
            (IF CHECK_BIT(cfsr, DIVBYZERO) # {}
                THEN FAULT_PRINTLN(" - The processor has executed an SDIV or UDIV instruction with a divisor of 0.")
                ELSE << >>) \o
            (IF CHECK_BIT(cfsr, UNALIGNED) # {}
                THEN FAULT_PRINTLN(" - The processor has made an unaligned memory access.")
                ELSE << >>) \o
            (IF CHECK_BIT(cfsr, NOCP) # {}
                THEN FAULT_PRINTLN(" - Attempted to access a coprocessor.")
                ELSE << >>) \o
            (IF CHECK_BIT(cfsr, INVPC) # {}
                THEN FAULT_PRINTLN(" - Illegal attempt to load of EXC_RETURN to the PC.")
                ELSE << >>) \o
            (IF CHECK_BIT(cfsr, INVSTATE) # {}
                THEN FAULT_PRINTLN(" - Attempted to execute an instruction that makes illegal use of the EPSR.")
                ELSE << >>) \o
            (IF CHECK_BIT(cfsr, UNDEFINSTR) # {}
                THEN FAULT_PRINTLN(" - The processor has attempted to execute an undefined instruction.")
                ELSE << >>) ]

\* faulty variant: the VECTTBL test hangs on the else branch of the FORCED test
ReportHardFault_ElseIf(r) ==
    LET hfsr == r.HFSR
    IN  [ local |-> hfsr,
          text |->
            FAULT_PRINTLN("Hard fault status:") \o
            (IF CHECK_BIT(hfsr, FORCED) # {}
                THEN FAULT_PRINTLN(" - Forced Hard fault.")
                ELSE IF CHECK_BIT(hfsr, VECTTBL) # {}
                        THEN FAULT_PRINTLN(" - Bus fault on vector table read.")
                        ELSE << >>) ]

ReportHardFault(r) ==
    LET hfsr == r.HFSR
    IN  [ local |-> hfsr,
          text |->
            FAULT_PRINTLN("Hard fault status:") \o
            (IF CHECK_BIT(hfsr, FORCED) # {}
                THEN FAULT_PRINTLN(" - Forced Hard fault.")
                ELSE << >>) \o
            (IF CHECK_BIT(hfsr, VECTTBL) # {}
                THEN FAULT_PRINTLN(" - Bus fault on vector table read.")
                ELSE << >>) ]

-----------------------------------------------------------------------------
(* REPORT_STACK_FRAME, fault_handler.c lines 26-34 *)

\* faulty variant: the condition codes of the two MRS instructions are exchanged
StackFrameSelect_Exchanged(c) ==
    IF c.LR \cap {2} = {} THEN c.PSP ELSE c.MSP

\* TST LR, #0b0100 ; ITE EQ ; MRSEQ R0, MSP ; MRSNE R0, PSP
StackFrameSelect(c) ==
    IF c.LR \cap {2} = {} THEN c.MSP ELSE c.PSP

\* MOV R1, LR
ExcReturnArg(c) == c.LR

-----------------------------------------------------------------------------
(* The handler bodies, fault_handler.c lines 121-194, as statement lists.  *)
(* An #ifdef that is not selected contributes no statement.                *)

HaltExecution(c) ==
    (IF c.FAULT_BREAKPOINT THEN << "BKPT" >> ELSE << >>) \o
    (IF c.FAULT_REBOOT THEN << "AIRCR" >> ELSE << >>) \o
    (IF c.FAULT_STOP THEN << "while" >> ELSE << >>)

\* faulty variant: the MemManage handler also runs the Bus decoder
MEMMANAGE_FAULT_SYMBOL_AlsoBus(c) ==
    << "REPORT_STACK_FRAME", "ReportMemanageFault", "ReportBusFault" >> \o
    (IF c.HOOK THEN << "HOOK" >> ELSE << >>) \o
    HaltExecution(c)

MEMMANAGE_FAULT_SYMBOL(c) ==
    << "REPORT_STACK_FRAME", "ReportMemanageFault" >> \o
    (IF c.HOOK THEN << "HOOK" >> ELSE << >>) \o
    HaltExecution(c)

\* faulty variant: the hook is called before the Hard fault decode
HARD_FAULT_SYMBOL_HookEarly(c) ==
    << "REPORT_STACK_FRAME", "ReportMemanageFault", "ReportBusFault",
       "ReportUsageFault" >> \o
    (IF c.HOOK THEN << "HOOK" >> ELSE << >>) \o
    << "ReportHardFault" >> \o
    HaltExecution(c)

HARD_FAULT_SYMBOL(c) ==
    << "REPORT_STACK_FRAME", "ReportMemanageFault", "ReportBusFault",
       "ReportUsageFault", "ReportHardFault" >> \o
    (IF c.HOOK THEN << "HOOK" >> ELSE << >>) \o
    HaltExecution(c)

BUS_FAULT_SYMBOL(c) ==
    << "REPORT_STACK_FRAME", "ReportBusFault" >> \o
    (IF c.HOOK THEN << "HOOK" >> ELSE << >>) \o
    HaltExecution(c)

USAGE_FAULT_SYMBOL(c) ==
    << "REPORT_STACK_FRAME", "ReportUsageFault" >> \o
    (IF c.HOOK THEN << "HOOK" >> ELSE << >>) \o
    HaltExecution(c)

Vectors == {"MemManage", "Hard", "Bus", "Usage"}

\* the vector table: the body of the handler wired to the vector that fired
Body(c) ==
    CASE c.vector = "MemManage" -> MEMMANAGE_FAULT_SYMBOL(c)
      [] c.vector = "Hard"      -> HARD_FAULT_SYMBOL(c)
      [] c.vector = "Bus"       -> BUS_FAULT_SYMBOL(c)
      [] c.vector = "Usage"     -> USAGE_FAULT_SYMBOL(c)

\* the statement the handler is at; "return" past the closing brace
Stmt == IF ip <= Len(Body(cfg)) THEN Body(cfg)[ip] ELSE "return"

Decoders == {"ReportMemanageFault", "ReportBusFault", "ReportUsageFault",
             "ReportHardFault"}

StatusRegs == {"HFSR", "CFSR", "MMFAR", "BFAR", "AFSR"}

Executed(e) == \E k \in 1..Len(events) : events[k].ev = e

Log(e, o) == Append(events, [ev |-> e, n |-> Len(o)])

-----------------------------------------------------------------------------
(* Inputs *)

\* stack memory: the frame at MSP is words 0..7, the frame at PSP words 8..15
StackBase == [ MSP |-> 0, PSP |-> 8 ]

Frame(tag) == [k \in 0..7 |-> FromHex(<<tag, 0, 0, 0, 0, 0, 0, k>>)]

Memory(fm, fp) == [a \in 0..15 |-> IF a < StackBase.PSP THEN fm[a] ELSE fp[a - StackBase.PSP]]

ZeroFrame == [k \in 0..7 |-> Zero]
OnesFrame == [k \in 0..7 |-> Ones]

\* EXC_RETURN values: handler / thread mode, MSP / PSP, with and without FP
ExcReturns ==
    { FromHex(<<15, 15, 15, 15, 15, 15, 15, 1>>),
      FromHex(<<15, 15, 15, 15, 15, 15, 15, 9>>),
      FromHex(<<15, 15, 15, 15, 15, 15, 15, 13>>),
      FromHex(<<15, 15, 15, 15, 15, 15, 14, 13>>) }

CfsrSweep ==
    { {b} : b \in AllBits } \cup
    { Zero, Ones,
      FromHex(<<0, 0, 0, 0, 8, 2, 0, 8>>),
      FromHex(<<0, 0, 0, 0, 1, 1, 0, 0>>),
      {IACCVIOL, DACCVIOL, MUNSTKERR, MSTKERR, MLSPERR, MMARVALID},
      {UNDEFINSTR, UNALIGNED, DIVBYZERO, 26, 31},
      {IBUSERR, IMPRECISERR, DIVBYZERO, DACCVIOL} }

HfsrSweep == { Zero, Ones, {FORCED}, {VECTTBL}, {FORCED, VECTTBL}, {0}, {31},
               {FORCED, 31}, {VECTTBL, 2} }

Configs ==
    [ vector : Vectors, FAULT_BREAKPOINT : BOOLEAN, FAULT_REBOOT : BOOLEAN,
      FAULT_STOP : BOOLEAN, HOOK : BOOLEAN ]

DefaultConfig(v) ==
    [ vector |-> v, FAULT_BREAKPOINT |-> FALSE, FAULT_REBOOT |-> FALSE,
      FAULT_STOP |-> TRUE, HOOK |-> TRUE ]

Regs(hfsr, cfsr, mmfar, bfar, afsr, dhcsr) ==
    [ HFSR |-> hfsr, CFSR |-> cfsr, MMFAR |-> mmfar, BFAR |-> bfar,
      AFSR |-> afsr, DHCSR |-> dhcsr, AIRCR |-> Zero ]

DefaultRegs(dhcsr) ==
    Regs({FORCED}, {PRECISERR, BFARVALID},
         FromHex(<<2, 0, 0, 0, 0, 0, 0, 4>>), FromHex(<<4, 0, 0, 0, 1, 0, 0, 0>>),
         Zero, dhcsr)

DefaultCpu == [ LR |-> FromHex(<<15, 15, 15, 15, 15, 15, 15, 9>>),
                MSP |-> StackBase.MSP, PSP |-> StackBase.PSP ]

DefaultMem == Memory(Frame(1), Frame(2))

DhcsrValues == { Zero, {0} }

\* every selection of vector, policy switches and hook, probe attached or not
ConfigSweep ==
    /\ cfg \in Configs
    /\ \E d \in DhcsrValues : reg = DefaultRegs(d)
    /\ cpu = DefaultCpu
    /\ mem = DefaultMem

\* the status registers swept, one at a time, for each vector
RegisterSweep ==
    /\ \E v \in Vectors : cfg = DefaultConfig(v)
    /\ \/ \E c \in CfsrSweep :
            reg = [DefaultRegs(Zero) EXCEPT !.CFSR = c]
       \/ \E h \in HfsrSweep :
            reg = [DefaultRegs(Zero) EXCEPT !.HFSR = h]
    /\ cpu = DefaultCpu
    /\ mem = DefaultMem

\* the stacked frames, the stack pointer selection and the address registers
FrameSweep ==
    /\ \E v \in Vectors : cfg = DefaultConfig(v)
    /\ \E w \in { Zero, Ones } : reg = Regs(w, w, w, w, w, Zero)
    /\ \E l \in ExcReturns : cpu = [ LR |-> l, MSP |-> StackBase.MSP, PSP |-> StackBase.PSP ]
    /\ mem \in { Memory(ZeroFrame, OnesFrame), Memory(OnesFrame, ZeroFrame),
                 Memory(Frame(1), Frame(2)) }

NoLocals == ReportStackUsage(StackBase.MSP, Zero, Memory(ZeroFrame, ZeroFrame),
                             Regs(Zero, Zero, Zero, Zero, Zero, Zero)).locals

HandlerInit ==
    /\ ConfigSweep \/ RegisterSweep \/ FrameSweep
    /\ ip = 1
    /\ mode = "running"
    /\ args = [ R0 |-> 0, R1 |-> Zero ]
    /\ snap = NoLocals
    /\ dec = [ d \in Decoders |-> [ ran |-> FALSE, val |-> Zero ] ]
    /\ out = << >>
    /\ events = << >>
    /\ reads = [ r \in StatusRegs |-> 0 ]
    /\ hwChanges = 0

WriteIdle ==
    /\ queue = << >>
    /\ wpc = "idle"
    /\ wi = 0
    /\ wlen = 0

Init == HandlerInit /\ WriteIdle

-----------------------------------------------------------------------------
(* The fault handler, one action per statement of its body *)

\* REPORT_STACK_FRAME: select the stack pointer, BL ReportStackUsage
ReportStackFrame ==
    /\ mode = "running"
    /\ Stmt = "REPORT_STACK_FRAME"
    /\ LET r0  == StackFrameSelect(cpu)
           r1  == ExcReturnArg(cpu)
           res == ReportStackUsage(r0, r1, mem, reg)
       IN  /\ args' = [ R0 |-> r0, R1 |-> r1 ]
           /\ snap' = res.locals
           /\ out' = out \o res.text
           /\ events' = Log("REPORT_STACK_FRAME", out \o res.text)
    /\ reads' = [ r \in StatusRegs |-> reads[r] + 1 ]
    /\ ip' = ip + 1
    /\ UNCHANGED writeVars
    /\ UNCHANGED <<cfg, reg, cpu, mem, mode, dec, hwChanges>>

Decode(name, res, register) ==
    /\ mode = "running"
    /\ Stmt = name
    /\ dec' = [ dec EXCEPT ![name] = [ ran |-> TRUE, val |-> res.local ] ]
    /\ out' = out \o res.text
    /\ events' = Log(name, out \o res.text)
    /\ reads' = [ reads EXCEPT ![register] = @ + 1 ]
    /\ ip' = ip + 1
    /\ UNCHANGED writeVars
    /\ UNCHANGED <<cfg, reg, cpu, mem, mode, args, snap, hwChanges>>

MemanageFault == Decode("ReportMemanageFault", ReportMemanageFault(reg), "CFSR")

BusFault == Decode("ReportBusFault", ReportBusFault(reg), "CFSR")

UsageFault == Decode("ReportUsageFault", ReportUsageFault(reg), "CFSR")

HardFault == Decode("ReportHardFault", ReportHardFault(reg), "HFSR")

\* MEMMANAGE_FAULT_HOOK() and its siblings: the user's callback runs and returns
Hook ==
    /\ mode = "running"
    /\ Stmt = "HOOK"
    /\ events' = Log("HOOK", out)
    /\ ip' = ip + 1
    /\ UNCHANGED writeVars
    /\ UNCHANGED <<cfg, reg, cpu, mem, mode, args, snap, dec, out, reads, hwChanges>>

\* __asm volatile("BKPT #0"): with a probe attached the core halts in debug
\* state; without one the instruction escalates (HardFault or lockup)
Bkpt ==
    /\ mode = "running"
    /\ Stmt = "BKPT"
    /\ events' = Log("BKPT", out)
    /\ mode' = IF DebuggerAttached(reg) THEN "debug_halt" ELSE "escalated"
    /\ UNCHANGED writeVars
    /\ UNCHANGED <<cfg, reg, cpu, mem, ip, args, snap, dec, out, reads, hwChanges>>

\* the debugger's operator resumes execution past the breakpoint
DebuggerResume ==
    /\ mode = "debug_halt"
    /\ mode' = "running"
    /\ ip' = ip + 1
    /\ UNCHANGED writeVars
    /\ UNCHANGED <<cfg, reg, cpu, mem, args, snap, dec, out, events, reads, hwChanges>>

\* AIRCR = AIRCR_RESETREQ
Reboot ==
    /\ mode = "running"
    /\ Stmt = "AIRCR"
    /\ reg' = [ reg EXCEPT !.AIRCR = AIRCR_RESETREQ ]
    /\ events' = Log("AIRCR", out)
    /\ ip' = ip + 1
    /\ UNCHANGED writeVars
    /\ UNCHANGED <<cfg, cpu, mem, mode, args, snap, dec, out, reads, hwChanges>>

\* the reset takes effect some time after the request was written, if at all
SystemReset ==
    /\ mode \in {"running", "spin"}
    /\ reg.AIRCR = AIRCR_RESETREQ
    /\ mode' = "reset"
    /\ UNCHANGED writeVars
    /\ UNCHANGED <<cfg, reg, cpu, mem, ip, args, snap, dec, out, events, reads, hwChanges>>

\* while(1); is entered; its further iterations change nothing
Stop ==
    /\ mode = "running"
    /\ Stmt = "while"
    /\ events' = Log("while", out)
    /\ mode' = "spin"
    /\ UNCHANGED writeVars
    /\ UNCHANGED <<cfg, reg, cpu, mem, ip, args, snap, dec, out, reads, hwChanges>>

\* the closing brace of the handler: exception return to the faulted context
Return ==
    /\ mode = "running"
    /\ Stmt = "return"
    /\ mode' = "returned"
    /\ UNCHANGED writeVars
    /\ UNCHANGED <<cfg, reg, cpu, mem, ip, args, snap, dec, out, events, reads, hwChanges>>

\* the hardware sets a further sticky status bit while the handler runs
StickyBits == { <<"CFSR", IMPRECISERR>>, <<"HFSR", FORCED>> }

HwSetsBit ==
    /\ mode = "running"
    /\ hwChanges < MaxHwChanges
    /\ \E sb \in StickyBits :
          /\ sb[2] \notin reg[sb[1]]
          /\ reg' = [ reg EXCEPT ![sb[1]] = @ \cup {sb[2]} ]
    /\ hwChanges' = hwChanges + 1
    /\ UNCHANGED writeVars
    /\ UNCHANGED <<cfg, cpu, mem, ip, mode, args, snap, dec, out, events, reads>>

Next ==
    \/ ReportStackFrame
    \/ MemanageFault
    \/ BusFault
    \/ UsageFault
    \/ HardFault
    \/ Hook
    \/ Bkpt
    \/ DebuggerResume
    \/ Reboot
    \/ SystemReset
    \/ Stop
    \/ Return
    \/ HwSetsBit

Spec == Init /\ [][Next]_vars

-----------------------------------------------------------------------------
(* _write, communication.c lines 24-34, called once per report item, and   *)
(* the policy action that follows the report                               *)

\* uint16_t i wraps at 2^16
UINT16_MOD == 65536

WriteLens == 0..MaxLen \cup { UINT16_MOD }

WriteQueues ==
    { << l >> : l \in WriteLens } \cup
    { << a, b >> : a \in 0..MaxLen, b \in 0..MaxLen }

WriteInit ==
    /\ cfg = DefaultConfig("Hard")
    /\ reg = DefaultRegs(Zero)
    /\ cpu = DefaultCpu
    /\ mem = DefaultMem
    /\ ip = 1
    /\ mode = "running"
    /\ args = [ R0 |-> 0, R1 |-> Zero ]
    /\ snap = NoLocals
    /\ dec = [ d \in Decoders |-> [ ran |-> FALSE, val |-> Zero ] ]
    /\ out = << >>
    /\ events = << >>
    /\ reads = [ r \in StatusRegs |-> 0 ]
    /\ hwChanges = 0
    /\ queue \in WriteQueues
    /\ wpc = "idle"
    /\ wi = 0
    /\ wlen = 0

\* a print macro hands its bytes to _write(file, data, len)
CallWrite ==
    /\ mode = "running"
    /\ wpc = "idle"
    /\ queue # << >>
    /\ wlen' = Head(queue)
    /\ queue' = Tail(queue)
    /\ wi' = 0
    /\ wpc' = "for"
    /\ UNCHANGED handlerVars

\* for (...; i < len; ...)
ForTest ==
    /\ wpc = "for"
    /\ wpc' = IF wi < wlen THEN "while" ELSE "return"
    /\ UNCHANGED <<queue, wi, wlen>>
    /\ UNCHANGED handlerVars

\* while (!(ITM_STIM8(0) & ITM_STIM_FIFOREADY)) {}
WaitFifo ==
    /\ wpc = "while"
    /\ \E fifoReady \in BOOLEAN :
          wpc' = IF fifoReady THEN "store" ELSE "while"
    /\ UNCHANGED <<queue, wi, wlen>>
    /\ UNCHANGED handlerVars

\* ITM_STIM8(0) = data[i]; i++
StoreByte ==
    /\ wpc = "store"
    /\ wi' = (wi + 1) % UINT16_MOD
    /\ wpc' = "for"
    /\ UNCHANGED <<queue, wlen>>
    /\ UNCHANGED handlerVars

\* return len
WriteReturn ==
    /\ wpc = "return"
    /\ wpc' = "idle"
    /\ UNCHANGED <<queue, wi, wlen>>
    /\ UNCHANGED handlerVars

\* the report is out: the handler goes on to HaltExecution
PolicyAfterReport ==
    /\ mode = "running"
    /\ wpc = "idle"
    /\ queue = << >>
    /\ mode' = "spin"
    /\ events' = Log("while", out)
    /\ UNCHANGED writeVars
    /\ UNCHANGED <<cfg, reg, cpu, mem, ip, args, snap, dec, out, reads, hwChanges>>

CpuStep == CallWrite \/ ForTest \/ StoreByte \/ WriteReturn \/ PolicyAfterReport

WriteNext ==
    \/ CallWrite
    \/ ForTest
    \/ WaitFifo
    \/ StoreByte
    \/ WriteReturn
    \/ PolicyAfterReport

\* the core always executes its next instruction; nothing makes the FIFO ready
WriteSpec == WriteInit /\ [][WriteNext]_vars /\ WF_vars(CpuStep)

\* C10: a failing byte sink never blocks the terminal policy action: every
\* _write returns and the fault path reaches the policy action.
C10_SinkNeverBlocks == <>(mode = "spin")

-----------------------------------------------------------------------------
(* Reading the report back *)

HexFields(o) == SelectSeq(o, LAMBDA it : it.op = "hex")

\* the values the hexadecimal fields of o spell, in order
HexValues(o) == [k \in 1..Len(HexFields(o)) |-> FromHex(HexFields(o)[k].hex)]

DumpDone == Executed("REPORT_STACK_FRAME")

\* the raw dump: what was printed by the end of the first statement
DumpPart(o, ev) == SubSeq(o, 1, ev[1].n)

\* the structured decode: everything printed after the raw dump
DecodePart(o, ev) == SubSeq(o, ev[1].n + 1, Len(o))

\* what statement k printed
Printed(o, ev, k) == SubSeq(o, (IF k = 1 THEN 0 ELSE ev[k - 1].n) + 1, ev[k].n)

EventOf(e) == CHOOSE k \in 1..Len(events) : events[k].ev = e

Strings(items) == [k \in 1..Len(items) |-> items[k].s]

PolicyStmts == {"BKPT", "AIRCR", "while"}

PolicyCount == Cardinality({ k \in 1..Len(events) : events[k].ev \in PolicyStmts })

-----------------------------------------------------------------------------
(* The bit field descriptors of the four status categories: header, the    *)
(* valid-address bit with its two lines, and the cause bits in the order   *)
(* their lines are printed.  Lines are printed with the list prefix " - ". *)

Descriptors ==
    [ ReportMemanageFault |->
        [ header |-> "MemManage fault status:",
          valid  |-> << [ bit |-> 7, set |-> " - MMAR holds a valid address.",
                          clear |-> " - MMAR holds an invalid address." ] >>,
          causes |-> <<
            [ bit |-> 5, msg |-> " - Fault occurred during floating-point lazy state preservation." ],
            [ bit |-> 4, msg |-> " - Stacking has caused an access violation." ],
            [ bit |-> 3, msg |-> " - Unstacking has caused an access violation." ],
            [ bit |-> 1, msg |-> " - Load or store at a location that does not permit the operation." ],
            [ bit |-> 0, msg |-> " - Instruction fetch from a location that does not permit execution." ] >> ],
      ReportBusFault |->
        [ header |-> "Bus fault status:\n",
          valid  |-> << [ bit |-> 15, set |-> " - BFAR holds a valid address.",
                          clear |-> " - BFAR holds an invalid address." ] >>,
          causes |-> <<
            [ bit |-> 13, msg |-> " - Fault occurred during floating-point lazy state preservation." ],
            [ bit |-> 12, msg |-> " - Stacking has caused a Bus fault." ],
            [ bit |-> 11, msg |-> " - Unstacking has caused a Bus fault." ],
            [ bit |-> 10, msg |-> " - Data bus error has occurred, but the return address in the stack is not related to the fault." ],
            [ bit |-> 9, msg |-> " - Data bus error has occurred, and the return address points to the instruction that caused the fault." ],
            [ bit |-> 8, msg |-> " - Instruction bus error." ] >> ],
      ReportUsageFault |->
        [ header |-> "Usage fault status:",
          valid  |-> << >>,
          causes |-> <<
            [ bit |-> 25, msg |-> " - The processor has executed an SDIV or UDIV instruction with a divisor of 0." ],
            [ bit |-> 24, msg |-> " - The processor has made an unaligned memory access." ],
            [ bit |-> 19, msg |-> " - Attempted to access a coprocessor." ],
            [ bit |-> 18, msg |-> " - Illegal attempt to load of EXC_RETURN to the PC." ],
            [ bit |-> 17, msg |-> " - Attempted to execute an instruction that makes illegal use of the EPSR." ],
            [ bit |-> 16, msg |-> " - The processor has attempted to execute an undefined instruction." ] >> ],
      ReportHardFault |->
        [ header |-> "Hard fault status:",
          valid  |-> << >>,
          causes |-> <<
            [ bit |-> 30, msg |-> " - Forced Hard fault." ],
            [ bit |-> 1, msg |-> " - Bus fault on vector table read." ] >> ] ]

Headers == { Descriptors[d].header : d \in Decoders }

DecoderOfHeader(h) == CHOOSE d \in Decoders : Descriptors[d].header = h

CauseBits(d) == { Descriptors[d].causes[k].bit : k \in 1..Len(Descriptors[d].causes) }

LinesOf(d) ==
    { Descriptors[d].causes[k].msg : k \in 1..Len(Descriptors[d].causes) } \cup
    { Descriptors[d].valid[k].set : k \in 1..Len(Descriptors[d].valid) } \cup
    { Descriptors[d].valid[k].clear : k \in 1..Len(Descriptors[d].valid) }

\* the lines of the cause bits of d that are set in w, in the table's order
CauseLines(d, w) ==
    LET sel == SelectSeq(Descriptors[d].causes, LAMBDA c : c.bit \in w)
    IN  [ k \in 1..Len(sel) |-> sel[k].msg ]

\* the valid / invalid address line of d for w (none for Usage and Hard)
ValidLines(d, w) ==
    [ k \in 1..Len(Descriptors[d].valid) |->
        IF Descriptors[d].valid[k].bit \in w THEN Descriptors[d].valid[k].set
                                             ELSE Descriptors[d].valid[k].clear ]

\* what decoder d printed, as strings; << >> before it ran
SectionOf(d) == IF dec[d].ran THEN Strings(Printed(out, events, EventOf(d))) ELSE << >>

\* the description lines of d's section: all but the header and the
\* valid / invalid address line
\* the address line and the description lines of d's section: all but headers
BulletLines(d) == SelectSeq(SectionOf(d), LAMBDA s : s \notin Headers)

\* the description lines of d's section: all but the headers and the
\* valid / invalid address line
DescriptionLines(d) ==
    SelectSeq(BulletLines(d), LAMBDA s :
        \A k \in 1..Len(Descriptors[d].valid) :
            s # Descriptors[d].valid[k].set /\ s # Descriptors[d].valid[k].clear)


RegisterOf(d) == IF d = "ReportHardFault" THEN "HFSR" ELSE "CFSR"

ExpectedDecoders(v) ==
    CASE v = "MemManage" -> {"ReportMemanageFault"}
      [] v = "Bus"       -> {"ReportBusFault"}
      [] v = "Usage"     -> {"ReportUsageFault"}
      [] v = "Hard"      -> {"ReportMemanageFault", "ReportBusFault",
                             "ReportUsageFault", "ReportHardFault"}

\* the handler is past its decode statements
DecodeOver == DumpDone /\ Stmt \notin Decoders

Max(S) == CHOOSE x \in S : \A y \in S : y <= x

-----------------------------------------------------------------------------
(* Claims *)

\* C1: for every selection of the policy switches, one fault invocation takes
\* exactly one terminal action and control never returns to the faulted
\* context.
C1_OneTerminalActionNoReturn ==
    /\ mode # "returned"
    /\ PolicyCount <= 1
    /\ mode \in {"spin", "reset", "debug_halt", "escalated"} => PolicyCount = 1

\* C2: the breakpoint instruction is executed only when the debug-enable bit
\* of DHCSR shows a probe attached; with no probe attached the Breakpoint
\* policy waits forever instead.
C2_BreakpointOnlyWithProbe ==
    /\ Executed("BKPT") => DebuggerAttached(reg)
    /\ (cfg.FAULT_BREAKPOINT /\ ~DebuggerAttached(reg)) =>
          mode \notin {"debug_halt", "escalated", "returned"}

\* C3: the decode a handler runs depends only on the vector that fired: the
\* MemManage, Bus and Usage vectors print their own category only, the Hard
\* vector prints all four, and no line of a category outside the selection is
\* printed.
C3_DecodeSelection ==
    LET want == ExpectedDecoders(cfg.vector)
        D    == Strings(DecodePart(out, events))
    IN  /\ \A d \in Decoders : dec[d].ran => d \in want
        /\ DecodeOver => \A d \in want : dec[d].ran
        /\ DumpDone =>
             /\ \A d \in Decoders :
                   Len(SelectSeq(D, LAMBDA s : s = Descriptors[d].header))
                       = IF dec[d].ran THEN 1 ELSE 0
             /\ \A k \in 1..Len(D) :
                   LET hs == { j \in 1..k : D[j] \in Headers }
                   IN  /\ hs # {}
                       /\ DecoderOfHeader(D[Max(hs)]) \in want
                       /\ D[k] \in LinesOf(DecoderOfHeader(D[Max(hs)])) \cup Headers

C3_Witness ==
    /\ cfg.vector = "Hard"
    /\ DecodeOver
    /\ \A d \in Decoders : dec[d].ran /\ Len(SectionOf(d)) >= 1

\* C4 (as amended): ReportStackUsage prints fourteen fixed-width hexadecimal
\* fields, in the order R0 R1 R2 R3 R12 LR PC PSR HFSR CFSR MMFAR BFAR AFSR
\* EXC_RETURN, each spelling the value the frame, the register or the
\* argument held when it ran; nothing printed later adds to or changes them.
C4_RawDumpVerbatim ==
    [][ /\ (events = << >> /\ events' # << >>) =>
              /\ Len(HexFields(out')) = 14
              /\ \A k \in 1..14 : Len(HexFields(out')[k].hex) = 8
              /\ HexValues(out') =
                   << mem[args'.R0 + 0], mem[args'.R0 + 1], mem[args'.R0 + 2],
                      mem[args'.R0 + 3], mem[args'.R0 + 4], mem[args'.R0 + 5],
                      mem[args'.R0 + 6], mem[args'.R0 + 7],
                      reg.HFSR, reg.CFSR, reg.MMFAR, reg.BFAR, reg.AFSR,
                      args'.R1 >>
        /\ events # << >> => HexFields(out') = HexFields(out)
      ]_vars

C4_Witness ==
    /\ DumpDone
    /\ Len(HexFields(out)) = 14
    /\ \A k \in 1..13 : HexValues(out)[k] = Ones
    /\ Len(DecodePart(out, events)) > 0

\* C4 (as stated): the raw dump has sixteen hexadecimal fields.
C4_SixteenFields == DumpDone => Len(HexFields(DumpPart(out, events))) = 16

\* C5: each described bit is decoded independently: a decoder prints one
\* description line for each cause bit of its category that is set and none
\* for a bit that is clear or reserved, in a fixed order, after the
\* valid / invalid address line of MemManage and Bus.
C5_BitsDecodedIndependently ==
    \A d \in Decoders : dec[d].ran =>
        /\ hwChanges = 0 => dec[d].val = reg[RegisterOf(d)]
        /\ SectionOf(d) = << Descriptors[d].header >> \o BulletLines(d)
        /\ BulletLines(d) = ValidLines(d, dec[d].val) \o DescriptionLines(d)
        /\ DescriptionLines(d) = CauseLines(d, dec[d].val)
        /\ Len(DescriptionLines(d)) = Cardinality(dec[d].val \cap CauseBits(d))

C5_Witness ==
    /\ dec["ReportUsageFault"].ran
    /\ dec["ReportUsageFault"].val = {DIVBYZERO}
    /\ DescriptionLines("ReportUsageFault") =
         << " - The processor has executed an SDIV or UDIV instruction with a divisor of 0." >>

BusDecoded(w) == dec["ReportBusFault"].ran /\ dec["ReportBusFault"].val = w

\* C6 (as amended): with CFSR = 0x00001100 the Bus fault decode prints exactly
\* three lines, "BFAR holds an invalid address.", "Stacking has caused a Bus
\* fault.", "Instruction bus error.", in that order; with CFSR = 0x00008208 it
\* prints exactly two, "BFAR holds a valid address." and the precise data bus
\* error line.
C6_BusExample ==
    /\ BusDecoded(FromHex(<<0, 0, 0, 0, 1, 1, 0, 0>>)) =>
          BulletLines("ReportBusFault") =
            << " - BFAR holds an invalid address.",
               " - Stacking has caused a Bus fault.",
               " - Instruction bus error." >>
    /\ BusDecoded(FromHex(<<0, 0, 0, 0, 8, 2, 0, 8>>)) =>
          BulletLines("ReportBusFault") =
            << " - BFAR holds a valid address.",
               " - Data bus error has occurred, and the return address points to the instruction that caused the fault." >>

C6_Witness ==
    /\ BusDecoded(FromHex(<<0, 0, 0, 0, 1, 1, 0, 0>>))
    /\ Len(BulletLines("ReportBusFault")) = 3

\* C6 (as stated): with CFSR = 0x00008208 the Bus fault decode prints the
\* invalid-address, stacking and instruction bus error lines.
C6_AsStated ==
    BusDecoded(FromHex(<<0, 0, 0, 0, 8, 2, 0, 8>>)) =>
        BulletLines("ReportBusFault") =
          << " - BFAR holds an invalid address.",
             " - Stacking has caused a Bus fault.",
             " - Instruction bus error." >>

\* C7: the frame pointer is MSP when bit 2 of the saved LR is 0 and PSP when it
\* is 1; the eight words reported as R0..PSR are the eight consecutive words at
\* that pointer, the saved LR is passed on unchanged as EXC_RETURN, and no word
\* comes from the other stack.
C7_FrameFromSelectedStack ==
    DumpDone =>
        LET sel   == IF 2 \in cpu.LR THEN cpu.PSP ELSE cpu.MSP
            other == IF 2 \in cpu.LR THEN cpu.MSP ELSE cpu.PSP
            h     == HexValues(DumpPart(out, events))
        IN  /\ args.R0 = sel
            /\ args.R1 = cpu.LR
            /\ \A k \in 0..7 :
                  /\ h[k + 1] = mem[sel + k]
                  /\ mem[other + k] # mem[sel + k] => h[k + 1] # mem[other + k]
            /\ h[Len(h)] = cpu.LR

C7_Witness ==
    /\ DumpDone
    /\ 2 \in cpu.LR
    /\ args.R0 = cpu.PSP
    /\ HexValues(DumpPart(out, events))[7] = mem[cpu.PSP + 6]
    /\ mem[cpu.PSP + 6] # mem[cpu.MSP + 6]

Rank(e) ==
    CASE e = "REPORT_STACK_FRAME" -> 0
      [] e \in Decoders           -> 1
      [] e = "HOOK"               -> 2
      [] e \in PolicyStmts        -> 3

\* C8: in every handler the raw dump is printed first, then the decode lines,
\* then the hook runs if one is configured, then the policy action: nothing is
\* printed once the hook has run, and no policy action starts before the report
\* is complete and a configured hook has run.
C8_ReportHookPolicyOrder ==
    /\ \A i \in 1..Len(events), j \in 1..Len(events) :
          i < j => Rank(events[i].ev) <= Rank(events[j].ev)
    /\ events # << >> =>
          /\ events[1].ev = "REPORT_STACK_FRAME"
          /\ Len(HexFields(DumpPart(out, events))) = Len(HexFields(out))
          /\ DumpPart(out, events) # << >>
    /\ \A k \in 1..Len(events) :
          Rank(events[k].ev) >= 2 =>
             /\ events[k].n = Len(out)
             /\ \A d \in ExpectedDecoders(cfg.vector) :
                   \E j \in 1..(k - 1) : events[j].ev = d /\ events[j].n > events[j - 1].n
             /\ Rank(events[k].ev) = 3 =>
                   (cfg.HOOK <=> \E j \in 1..(k - 1) : events[j].ev = "HOOK")
             /\ Rank(events[k].ev) = 2 => cfg.HOOK

C8_Witness ==
    /\ cfg.vector = "Hard"
    /\ Executed("HOOK")
    /\ PolicyCount >= 1
    /\ Len(DecodePart(out, events)) >= 4

\* C9: each of HFSR, CFSR, MMFAR, BFAR, AFSR is loaded exactly once per fault,
\* so every decoder works on the value the raw dump printed.
C9_SingleSnapshot ==
    /\ \A r \in StatusRegs : reads[r] <= 1
    /\ \A d \in Decoders : dec[d].ran =>
          dec[d].val = IF d = "ReportHardFault" THEN snap.hfsr ELSE snap.cfsr

=============================================================================
